---- MODULE Spec2Model ----
(***************************************************************************)
(* A model of vitrevance/sniproxy: the ClientHello peeker and parser, the  *)
(* endpoint table and the two-way relay of SNIProxy.HandleConnection, for   *)
(* one accepted connection, its client and its backend.                    *)
(*                                                                         *)
(* Bytes are the integers 0..255; a byte string is a sequence of them.     *)
(* Go slices are 0-based: At(s, i) reads s[i].                             *)
(***************************************************************************)
EXTENDS Integers, Sequences, FiniteSets, TLC

\* ------------------------------------------------------------------ bounds

\* Bytes the backend may send on the relayed connection.
MaxBackendBytes == 2

\* Bytes the client may send after its opening script (application data).
MaxExtra == 1

\* The client's writes may end after any of the first MaxCut bytes of its
\* stream, at the end of its opening script, and after any byte that follows.
MaxCut == 5

\* Name entries a client may list in its server_name extension.
MaxNames == 2

\* The longest buffer made of header bytes alone.
MaxHdrLen == 5

\* The bytes that may follow a 5-byte record header with a small declared
\* size.
MaxPayload == 3

\* Entries of an endpoint table looked up by concurrent callers.
MaxEntries == 2

\* Goroutines that call endpointsDB.Get at the same time.
MaxCallers == 2

\* The longest run of arbitrary bytes in a record body.
MaxFuzz == 6

\* ----------------------------------------------------------------- helpers

Min(a, b) == IF a < b THEN a ELSE b

\* s[i] of a Go slice whose backing array is zero beyond len(s): the array
\* bytes.Buffer allocates is fresh (make), and nothing is ever written past
\* the length.
At(s, i) == IF i < Len(s) THEN s[i + 1] ELSE 0

\* binary.BigEndian.Uint16(s[i : i+2])
Uint16(s, i) == At(s, i) * 256 + At(s, i + 1)

\* s[lo : hi] of a Go slice, for 0 <= lo <= hi <= cap(s)
Slice(s, lo, hi) == [i \in 1..(hi - lo) |-> At(s, lo + i - 1)]

IsPrefix(p, s) == Len(p) <= Len(s) /\ SubSeq(s, 1, Len(p)) = p

\* ------------------------------------------------------------------ parser

\* A parser that takes SSL 3.0 records too.
VersionsAndSSL3 == {768, 769, 770, 771, 772}

\* The four record versions parseTLSHandshake recognises.
Versions == {769, 770, 771, 772}

\* cap(peekedBytes.Bytes()): a bytes.Buffer that was never written a byte has
\* a nil slice; its first small write allocates 64 bytes (smallBufferSize),
\* and the capacity never falls under the length.
BytesCap(buf) == IF Len(buf) = 0 THEN 0 ELSE IF Len(buf) < 64 THEN 64 ELSE Len(buf)

\* size + 5 in uint16 arithmetic
SizePlus5(size) == (size + 5) % 65536

\* parseTLSHandshake(buf), for a slice of capacity cp over a zero-tailed array.
\* err is "nil", "NotTLS", "ReadMore", or "panic" for a run-time panic (index
\* or slice bounds out of range).  buf[0] is checked against len(buf);
\* the slice expressions buf[1:3], buf[3:5] and buf[5:size+5] are checked
\* against cap(buf).
parseTLSHandshake(buf, cp) ==
  LET version == Uint16(buf, 1)
      size    == Uint16(buf, 3)
      hi      == SizePlus5(size)
      fail(e) == [err |-> e, Type |-> 0, Version |-> 0, Body |-> <<>>]
  IN  IF Len(buf) = 0 THEN fail("panic")
      ELSE IF At(buf, 0) # 22 THEN fail("NotTLS")
      ELSE IF cp < 5 THEN fail("panic")
      ELSE IF version \notin Versions THEN fail("NotTLS")
      ELSE IF hi > Len(buf) THEN fail("ReadMore")
      ELSE IF hi < 5 THEN fail("panic")
      ELSE [err |-> "nil", Type |-> 22, Version |-> version,
            Body |-> Slice(buf, 5, hi)]

Max(a, b) == IF a > b THEN a ELSE b

\* The scans below return the hostname together with `top`, one more than
\* the highest index of r.Body they read: r.Body[i] reads i, Uint16 of
\* r.Body[i : i+2] reads i and i+1, string(r.Body[lo : hi]) reads lo..hi-1.

\* A name is returned whatever its declared size.
NameFitsAlways(n, nameSize, end) == TRUE

\* "if n+nameSize > end { return "" }", negated
NameFits(n, nameSize, end) == ~(n + nameSize > end)

\* An extension that is not server_name is stepped into, not over.
SkipNothing(pos, extSize) == pos

\* "pos += extSize"
SkipExtension(pos, extSize) == pos + extSize

\* A window cut down to the bytes that remain.
WindowClamped(pos, extensionsSize, end) == Min(pos + extensionsSize, end)

\* The end of the extensions block, -1 for the return of "": "if
\* pos+extensionsSize > end { return "" }; end = pos + extensionsSize".
Window(pos, extensionsSize, end) ==
  IF pos + extensionsSize > end THEN -1 ELSE pos + extensionsSize

\* The name list of a server_name extension: the loop "for n < pos-3".
\* name is the hostname, or <<-1>> when the loop ends without one.
RECURSIVE NameLoop(_, _, _, _, _)
NameLoop(Body, n, pos, end, top) ==
  IF ~(n < pos - 3) THEN [name |-> <<-1>>, top |-> top]
  ELSE LET nameType == At(Body, n)
           nameSize == Uint16(Body, n + 1)
           n2       == n + 3
           t2       == Max(top, n + 3)
       IN  IF nameType = 0
           THEN IF ~NameFits(n2, nameSize, end) THEN [name |-> <<>>, top |-> t2]
                ELSE [name |-> Slice(Body, n2, n2 + nameSize),
                      top  |-> Max(t2, n2 + nameSize)]
           ELSE NameLoop(Body, n2, pos, end, t2)

\* The extensions loop "for pos+4 < end".
RECURSIVE ExtLoop(_, _, _, _)
ExtLoop(Body, pos, end, top) ==
  IF ~(pos + 4 < end) THEN [name |-> <<>>, top |-> top]
  ELSE LET extType == Uint16(Body, pos)
           extSize == Uint16(Body, pos + 2)
           p4      == pos + 4
           t4      == Max(top, pos + 4)
       IN  IF extType = 0
           THEN IF p4 > end - 2 THEN [name |-> <<>>, top |-> t4]
                ELSE LET namesLength == Uint16(Body, p4)
                         n           == p4 + 2
                         p6          == n + namesLength
                         t6          == Max(t4, p4 + 2)
                     IN  IF p6 > end THEN [name |-> <<>>, top |-> t6]
                         ELSE LET r == NameLoop(Body, n, p6, end, t6)
                              IN  IF r.name = <<-1>>
                                  THEN ExtLoop(Body, p6, end, r.top)
                                  ELSE r
           ELSE ExtLoop(Body, SkipExtension(p4, extSize), end, t4)

\* The body of TLSRecord.SNI().
SNIScan(Body) ==
  LET end  == Len(Body)
      pos0 == 1 + 3 + 2 + 32
      none(t) == [name |-> <<>>, top |-> t]
  IN  IF pos0 > end - 1 THEN none(0)
      ELSE LET pos1 == pos0 + 1 + At(Body, pos0)
           IN  IF pos1 > end - 2 THEN none(pos0 + 1)
               ELSE LET pos2 == pos1 + 2 + Uint16(Body, pos1)
                    IN  IF pos2 > end - 1 THEN none(pos1 + 2)
                        ELSE LET pos3 == pos2 + 1 + At(Body, pos2)
                             IN  IF pos3 > end - 2 THEN none(pos2 + 1)
                                 ELSE LET extensionsSize == Uint16(Body, pos3)
                                          pos4 == pos3 + 2
                                          w    == Window(pos4, extensionsSize, end)
                                      IN  IF w < 0 THEN none(pos4)
                                          ELSE ExtLoop(Body, pos4, w, pos4)

\* TLSRecord.SNI(): the hostname as a byte string, <<>> for "".
SNI(Body) == SNIScan(Body).name

\* --------------------------------------------------------------- endpoints

\* A compiled regular expression (EndpointEntry.regex) is a sequence of atoms;
\* an atom is a byte (c = -1 for ".", any byte), possibly starred.
Lit(c)  == [c |-> c, star |-> FALSE]
AnyStar == [c |-> -1, star |-> TRUE]

AtomMatches(a, b) == a.c = -1 \/ a.c = b

\* Whether re[i..] matches some prefix of s[j..].
RECURSIVE MatchHere(_, _, _, _)
MatchHere(re, i, s, j) ==
  IF i > Len(re) THEN TRUE
  ELSE IF re[i].star
       THEN \/ MatchHere(re, i + 1, s, j)
            \/ /\ j <= Len(s)
               /\ AtomMatches(re[i], s[j])
               /\ MatchHere(re, i, s, j + 1)
       ELSE /\ j <= Len(s)
            /\ AtomMatches(re[i], s[j])
            /\ MatchHere(re, i + 1, s, j + 1)

\* regexp.Regexp.MatchString: the expression matches anywhere in s.
MatchString(re, s) == \E j \in 1..(Len(s) + 1) : MatchHere(re, 1, s, j)

\* A scan that answers with the last matching entry.
GetLastFrom(eps, i, endpoint) ==
  LET M == {k \in i..Len(eps) : MatchString(eps[k].regex, endpoint)}
  IN  IF M = {} THEN [found |-> FALSE, Address |-> "", index |-> 0]
      ELSE LET k == CHOOSE m \in M : \A o \in M : o <= m
           IN  [found |-> TRUE, Address |-> eps[k].Address, index |-> k]

\* The scan of EndpointDB.Get from entry i on.
RECURSIVE GetFrom(_, _, _)
GetFrom(eps, i, endpoint) ==
  IF i > Len(eps) THEN [found |-> FALSE, Address |-> "", index |-> 0]
  ELSE IF MatchString(eps[i].regex, endpoint)
       THEN [found |-> TRUE, Address |-> eps[i].Address, index |-> i]
       ELSE GetFrom(eps, i + 1, endpoint)

\* EndpointDB.Get(endpoint): the first entry whose regex matches.
Get(eps, endpoint) == GetFrom(eps, 1, endpoint)

\* The hostname HandleConnection looks up for a stream that is not TLS: "*".
Wildcard == <<42>>

\* ------------------------------------------------------------ environment

Entry(re, addr) == [regex |-> re, Address |-> addr]

\* The endpoint tables a run may be configured with: none; "a" only; "a"
\* then ".*", which matches every hostname, "*" and "" included.
Tables ==
  { <<>>,
    << Entry(<<Lit(97)>>, "10.0.0.1:443") >>,
    << Entry(<<Lit(97)>>, "10.0.0.1:443"), Entry(<<AnyStar>>, "10.0.0.2:443") >> }

\* The tables concurrent callers look up: up to MaxEntries entries, each
\* "a", "b" or ".*".
LookupTables ==
  UNION { [1..k -> { Entry(<<Lit(97)>>, "10.0.0.1:443"),
                     Entry(<<Lit(98)>>, "10.0.0.3:443"),
                     Entry(<<AnyStar>>, "10.0.0.2:443") }] : k \in 0..MaxEntries }

\* The hostnames they look up: "", "a", "b", "*".
LookupNames == {<<>>, <<97>>, <<98>>, <<42>>}

Zeros(n) == [i \in 1..n |-> 0]

\* A ClientHello record carrying one server_name extension with one
\* hostname entry `name`: record header, handshake header, client version,
\* 32 bytes of random, empty session id, one cipher suite, the null
\* compression method, the extensions block.
HelloBody(name) ==
  LET k   == Len(name)
      ext == <<0, 0, 0, k + 5, 0, k + 3, 0, 0, k>> \o name
      ch  == <<3, 3>> \o Zeros(32) \o <<0>> \o <<0, 2, 19, 1>> \o <<1, 0>>
             \o <<0, Len(ext)>> \o ext
  IN  <<1, 0, 0, Len(ch)>> \o ch

Hello(name) == <<22, 3, 1, 0, Len(HelloBody(name))>> \o HelloBody(name)

\* n as a big-endian u16
U16(n) == <<n \div 256, n % 256>>

\* One extension: {type: u16, length: u16, data}.
Extension(type, data) == U16(type) \o U16(Len(data)) \o data

\* One entry of a server_name list: {nameType: u8, nameLength: u16, name}.
NameBytes(e) == <<e.t>> \o U16(Len(e.name)) \o e.name

RECURSIVE NameListBytes(_)
NameListBytes(names) ==
  IF names = <<>> THEN <<>>
  ELSE NameBytes(Head(names)) \o NameListBytes(Tail(names))

\* The server_name extension (type 0) holding the entries `names`.
ServerName(names) ==
  Extension(0, U16(Len(NameListBytes(names))) \o NameListBytes(names))

\* The body of a handshake record holding the ClientHello composed of h:
\* session id, cipher suites, compression methods, the extensions before
\* the server_name extension, its name entries, the extensions after it.
\* The extensions length is declared h.slack bytes larger than the block is.
ClientHello(h) ==
  LET exts == h.before \o ServerName(h.names) \o h.after
      ch   == <<3, 3>> \o Zeros(32) \o <<Len(h.sid)>> \o h.sid
              \o U16(Len(h.cs)) \o h.cs \o <<Len(h.comp)>> \o h.comp
              \o U16(Len(exts) + h.slack) \o exts
  IN  <<1, 0>> \o U16(Len(ch)) \o ch

\* A handshake record of version TLS 1.2 with the given body.
Record(body) == <<22, 3, 3>> \o U16(Len(body)) \o body

\* The name entries a client may list: two hostnames (nameType 0) and three
\* entries of other types, one of them with name bytes that read as the
\* header and name of a hostname entry "c".
NameEntries ==
  { [t |-> 0, name |-> <<97>>], [t |-> 0, name |-> <<98, 0>>],
    [t |-> 1, name |-> <<0>>], [t |-> 1, name |-> <<120>>],
    [t |-> 2, name |-> <<0, 0, 1, 99>>] }

NameLists == UNION {[1..k -> NameEntries] : k \in 0..MaxNames}

\* The ClientHellos a client may compose.
Hellos ==
  [ sid    : {<<>>, <<5>>},
    cs     : {<<>>, <<19, 1>>},
    comp   : {<<>>, <<0>>},
    before : {<<>>, Extension(1, <<>>), Extension(10, <<9>>)},
    names  : NameLists,
    after  : {<<>>, Extension(1, <<>>), Extension(10, <<9>>)},
    slack  : {0, 1, 4} ]

\* No ClientHello composed from fields.
NoHello ==
  [sid |-> <<>>, cs |-> <<>>, comp |-> <<>>, before |-> <<>>, names |-> <<>>,
   after |-> <<>>, slack |-> 0]

\* Buffers of header bytes: the record type, version bytes, and size bytes
\* that reach the top of the 16-bit range.
HdrBytes == {0, 1, 3, 22, 251, 255}

HeaderBuffers == UNION {[1..k -> HdrBytes] : k \in 0..MaxHdrLen}

\* Declared record sizes: small ones, and 65530..65535 around the wrap of
\* size + 5.
Sizes == (0..(MaxPayload + 1)) \cup (65530..65535)

\* A handshake header of each recognised version and of SSL 3.0 (768), a
\* declared size, and 0..MaxPayload bytes after the header.
SizedBuffers ==
  { <<22>> \o U16(v) \o U16(size) \o [i \in 1..n |-> 7] :
      v \in Versions \cup {768}, size \in Sizes, n \in 0..MaxPayload }

\* The 38 bytes SNI() skips: handshake header, client version, random.
Fixed38 == <<1, 0, 0, 0, 3, 3>> \o Zeros(32)

\* Every truncation of a ClientHello with every field present.
Truncations ==
  LET b == ClientHello([sid |-> <<5>>, cs |-> <<19, 1>>, comp |-> <<0>>,
                        before |-> Extension(10, <<9>>),
                        names |-> <<[t |-> 0, name |-> <<97>>]>>,
                        after |-> <<>>, slack |-> 0])
  IN  {SubSeq(b, 1, k) : k \in 0..Len(b)}

FuzzBytes == {0, 1, 3}

FuzzSeqs == UNION {[1..k -> FuzzBytes] : k \in 0..MaxFuzz}

\* Arbitrary bytes after the 38 fixed ones; arbitrary bytes as the
\* extensions block, its length declared short by one, exact, or long by
\* one; arbitrary bytes as the name list of a server_name extension.
FuzzBodies ==
  {Fixed38 \o x : x \in FuzzSeqs}
  \cup { Fixed38 \o <<0, 0, 0, 0>> \o U16(Len(x) + d - 1) \o x :
           x \in FuzzSeqs \ {<<>>}, d \in 0..2 }
  \cup { Fixed38 \o <<0, 0, 0, 0>> \o U16(Len(x) + 6)
             \o Extension(0, U16(Len(x)) \o x) : x \in FuzzSeqs }

\* A server_name extension for "a" that declares its own size exact, one
\* too long, and 65535, in an extensions block of the exact length.
Mislengthed ==
  { Fixed38 \o <<0, 0, 0, 0>> \o <<0, 10>>
      \o U16(0) \o U16(size) \o <<0, 4, 0, 0, 1, 97>> : size \in {6, 7, 65535} }

\* The buffers the parser is applied to.
ParseInputs ==
  HeaderBuffers \cup SizedBuffers
  \cup {Record(b) : b \in Truncations \cup FuzzBodies \cup Mislengthed}

\* What a client may open with: a ClientHello for "a", plaintext "HE", a
\* record too short to hold a ClientHello, a record header declaring 65535
\* bytes, a record of an unknown version.
Scripts ==
  { Hello(<<97>>),
    <<72, 69>>,
    <<22, 3, 3, 0, 1, 1>>,
    <<22, 3, 1, 255, 255>>,
    <<22, 2, 0>> }

\* The bytes that follow the opening script: application data.
Extra == [i \in 1..MaxExtra |-> 7]

\* The bytes the backend sends, in order.
BackendData == [i \in 1..MaxBackendBytes |-> 100 + i]

\* ------------------------------------------------------------------ state

\* len(inBuffer): the most one Read of the peeker returns.
InBufferSize == 1024

VARIABLES
  endpoints,    \* s.endpointsDB.endpoints, fixed for the run
  stream,       \* everything the client will ever send, in order
  hello,        \* history: the fields the client composed its ClientHello of
  cSent,        \* how many bytes of stream the client has sent
  c2p,          \* bytes sent by the client and not yet read from conn
  cFin,         \* the client has ended its stream (end-of-stream follows c2p)
  cRecv,        \* bytes the client has received
  bSent,        \* how many bytes of BackendData the backend has sent
  b2p,          \* bytes sent by the backend and not yet read from backendConn
  bFin,         \* the backend has ended its stream
  bRecv,        \* bytes the backend has received
  connClosed,   \* conn.Close() was called
  bOpen,        \* net.Dial succeeded: backendConn exists
  bClosed,      \* backendConn.Close() was called
  deadline,     \* read deadline of conn: "none", "armed" or "expired"
  pc,           \* where HandleConnection is
  peekedBytes,  \* the capture buffer of peekClientHello
  peekedOff,    \* how many bytes of peekedBytes clientReader has handed out
  readErr,      \* the error of the peeker's last Read: "nil", "EOF", "timeout", "reset"
  peekErr,      \* the error peekClientHello returned: "none" (not returned), "nil", "NotTLS", "read"
  sni,          \* the hostname peekClientHello returned
  tls,          \* the peeker's local tls: the record of its last parse
  domainName,   \* the hostname looked up
  ep,           \* the result of endpointsDB.Get
  retErr,       \* the error HandleConnection returned, "none" before it returns
  pcB,          \* the backend->client goroutine: "idle", "read", "write", "close", "done"
  bufB,         \* the chunk that goroutine has read and not yet written
  pcC,          \* the client->backend goroutine
  bufC,         \* the chunk that goroutine has read and not yet written
  delivered,    \* history: bytes the source delivered to the peeker's Reads
  liveRead,     \* history: bytes read from conn after peeking
  getCalls,     \* history: calls of endpointsDB.Get
  dialCalls,    \* history: calls of net.Dial
  dialAddr,     \* history: the address dialed
  lookups,      \* calls of endpointsDB.Get by other goroutines, in progress
  netErr        \* history: the network failed a Read or a Write

clientVars  == <<stream, hello, cSent, c2p, cFin, cRecv>>
backendVars == <<bSent, b2p, bFin, bRecv>>
sockVars    == <<connClosed, bOpen, bClosed, deadline>>
peekVars    == <<peekedBytes, readErr, peekErr, sni, tls, delivered>>
routeVars   == <<domainName, ep, getCalls, dialCalls, dialAddr, lookups>>
relayVars   == <<pcB, bufB, pcC, bufC, peekedOff, liveRead>>

vars == <<endpoints, clientVars, backendVars, sockVars, peekVars, routeVars,
          relayVars, pc, retErr, netErr>>

NoEndpoint == [found |-> FALSE, Address |-> "", index |-> 0]

\* TLSRecord{}
NoRecord == [Type |-> 0, Version |-> 0, Body |-> <<>>]

Init ==
  /\ endpoints \in Tables
  /\ stream \in {s \o Extra : s \in Scripts}
  /\ hello = NoHello
  /\ cSent = 0 /\ c2p = <<>> /\ cFin = FALSE /\ cRecv = <<>>
  /\ bSent = 0 /\ b2p = <<>> /\ bFin = FALSE /\ bRecv = <<>>
  /\ connClosed = FALSE /\ bOpen = FALSE /\ bClosed = FALSE
  /\ deadline = "none"
  /\ pc = "start"
  /\ peekedBytes = <<>> /\ peekedOff = 0
  /\ readErr = "nil" /\ peekErr = "none" /\ sni = <<>> /\ tls = NoRecord
  /\ domainName = <<>> /\ ep = NoEndpoint /\ lookups = <<>>
  /\ retErr = "none"
  /\ pcB = "idle" /\ bufB = <<>> /\ pcC = "idle" /\ bufC = <<>>
  /\ delivered = <<>> /\ liveRead = <<>>
  /\ getCalls = 0 /\ dialCalls = 0 /\ dialAddr = ""
  /\ netErr = FALSE

\* ------------------------------------------------------- client and backend

\* Where a write of the client may end.
Cuts == (1..MaxCut) \cup ((Len(stream) - MaxExtra)..Len(stream))

\* The client sends the next k bytes of its stream.
ClientSend ==
  /\ ~connClosed /\ ~cFin
  /\ \E k \in 1..(Len(stream) - cSent) :
       /\ cSent + k \in Cuts
       /\ c2p' = c2p \o SubSeq(stream, cSent + 1, cSent + k)
       /\ cSent' = cSent + k
  /\ UNCHANGED <<endpoints, stream, hello, cFin, cRecv, backendVars, sockVars, peekVars,
                 routeVars, relayVars, pc, retErr, netErr>>

\* The client ends its stream (closes, or shuts down its sending side).
ClientClose ==
  /\ ~connClosed /\ ~cFin
  /\ cFin' = TRUE
  /\ UNCHANGED <<endpoints, stream, hello, cSent, c2p, cRecv, backendVars, sockVars,
                 peekVars, routeVars, relayVars, pc, retErr, netErr>>

\* The backend sends its next byte.
BackendSend ==
  /\ bOpen /\ ~bClosed /\ ~bFin
  /\ bSent < MaxBackendBytes
  /\ b2p' = Append(b2p, BackendData[bSent + 1])
  /\ bSent' = bSent + 1
  /\ UNCHANGED <<endpoints, clientVars, bFin, bRecv, sockVars, peekVars, routeVars,
                 relayVars, pc, retErr, netErr>>

\* The backend ends its stream.
BackendClose ==
  /\ bOpen /\ ~bClosed /\ ~bFin
  /\ bFin' = TRUE
  /\ UNCHANGED <<endpoints, clientVars, bSent, b2p, bRecv, sockVars, peekVars,
                 routeVars, relayVars, pc, retErr, netErr>>

\* The read deadline armed by SetReadDeadline passes.
DeadlineExpires ==
  /\ deadline = "armed"
  /\ deadline' = "expired"
  /\ UNCHANGED <<endpoints, clientVars, backendVars, connClosed, bOpen, bClosed,
                 peekVars, routeVars, relayVars, pc, retErr, netErr>>

\* -------------------------------------------------------- HandleConnection

\* HandleConnection without "defer conn.Close()".
ConnLeftAsIs(closed) == closed

\* "defer conn.Close()": conn is closed when HandleConnection returns.
ConnAfterReturn(closed) == TRUE

\* "defer backendConn.Close()", registered once the dial has succeeded.
BackendAfterReturn(opened, closed) == IF opened THEN TRUE ELSE closed

\* HandleConnection returns e ("nil" for a nil error); its defers run.
Return(e) ==
  /\ pc' = "returned"
  /\ retErr' = e
  /\ connClosed' = ConnAfterReturn(connClosed)
  /\ bClosed' = BackendAfterReturn(bOpen, bClosed)

\* HandleConnection without the SetReadDeadline call before peeking.
StartNoDeadline ==
  /\ pc = "start"
  /\ pc' = "peek_read"
  /\ UNCHANGED <<endpoints, clientVars, backendVars, sockVars, peekVars, routeVars,
                 relayVars, retErr, netErr>>

\* conn.SetReadDeadline(time.Now().Add(60 * time.Second)) and its error check.
Start ==
  /\ pc = "start"
  /\ \/ /\ deadline' = "armed"
        /\ pc' = "peek_read"
        /\ UNCHANGED <<retErr, connClosed, bClosed, netErr>>
     \/ /\ Return("deadline_set")
        /\ netErr' = TRUE
        /\ UNCHANGED deadline
  /\ UNCHANGED <<endpoints, clientVars, backendVars, bOpen, peekVars, routeVars,
                 relayVars>>

\* A capture that keeps the last chunk only (Reset before Write).
CaptureLastChunk(buf, data) == data

\* peekedBytes.Write(inBuffer[:n])
Capture(buf, data) == buf \o data

\* The peeker gives up on a Read error: "readErr != nil &&
\* (!errors.Is(readErr, io.EOF) || !errors.Is(err, ReadMore))".
ReadFails(rErr, err) == rErr # "nil" /\ (rErr # "EOF" \/ err # "ReadMore")

\* What one Read of conn returns during peeking, as <<data, error>>: a
\* timeout once the deadline has passed; else the bytes that have arrived, up
\* to len(inBuffer); else end-of-stream once the client has ended its stream;
\* it blocks while none of these holds.
PeekReads ==
  LET avail == SubSeq(c2p, 1, Min(Len(c2p), InBufferSize))
  IN  IF deadline = "expired" THEN {<<<<>>, "timeout">>}
      ELSE IF c2p # <<>> THEN {<<avail, "nil">>}
      ELSE IF cFin THEN {<<<<>>, "EOF">>}
      ELSE {}

\* A Read the network fails: an io.Reader may fail at any time, and may
\* deliver bytes together with the failure.
PeekFailures ==
  LET avail == SubSeq(c2p, 1, Min(Len(c2p), InBufferSize))
  IN  {<<<<>>, "reset">>, <<avail, "reset">>}

\* One pass of the peeker's loop up to the parse, for a Read that returned
\* r: capture, error check.  Inside the loop err is ReadMore.
PeekReadStep(r) ==
  /\ c2p' = SubSeq(c2p, Len(r[1]) + 1, Len(c2p))
  /\ peekedBytes' = Capture(peekedBytes, r[1])
  /\ delivered' = delivered \o r[1]
  /\ readErr' = r[2]
  /\ netErr' = (netErr \/ r[2] = "reset")
  /\ IF ReadFails(r[2], "ReadMore")
     THEN /\ sni' = <<>>
          /\ peekErr' = "read"
          /\ pc' = "after_peek"
     ELSE /\ pc' = "peek_parse"
          /\ UNCHANGED <<sni, peekErr>>
  /\ UNCHANGED <<endpoints, stream, hello, cSent, cFin, cRecv, backendVars, sockVars,
                 tls, routeVars, relayVars, retErr>>

PeekRead ==
  /\ pc = "peek_read"
  /\ \E r \in PeekReads : PeekReadStep(r)

PeekReadFail ==
  /\ pc = "peek_read"
  /\ \E r \in PeekFailures : PeekReadStep(r)

\* The rest of the pass: parseTLSHandshake(peekedBytes.Bytes()), the loop
\* condition, and the return of tls.SNI(), where the local readErr goes out
\* of scope.  A panic unwinds HandleConnection,
\* whose deferred conn.Close() runs, and is not recovered.
PeekParse ==
  /\ pc = "peek_parse"
  /\ LET r == parseTLSHandshake(peekedBytes, BytesCap(peekedBytes))
     IN  \/ /\ r.err = "panic"
            /\ pc' = "panicked"
            /\ connClosed' = ConnAfterReturn(connClosed)
            /\ UNCHANGED <<sni, tls, peekErr, readErr>>
         \/ /\ r.err = "ReadMore"
            /\ tls' = [Type |-> r.Type, Version |-> r.Version, Body |-> r.Body]
            /\ pc' = "peek_read"
            /\ UNCHANGED <<sni, peekErr, readErr, connClosed>>
         \/ /\ r.err \in {"nil", "NotTLS"}
            /\ tls' = [Type |-> r.Type, Version |-> r.Version, Body |-> r.Body]
            /\ sni' = SNI(tls'.Body)
            /\ peekErr' = r.err
            /\ readErr' = "nil"
            /\ pc' = "after_peek"
            /\ UNCHANGED connClosed
  /\ UNCHANGED <<endpoints, clientVars, backendVars, bOpen, bClosed, deadline,
                 peekedBytes, delivered, routeVars, relayVars, retErr,
                 netErr>>

\* Every error of the peeker is routed as "*" (no abort).
AbortsNever(e) == FALSE

\* HandleConnection gives up on an error of the peeker that is not NotTLS.
AbortsOnPeekError(e) == e \notin {"nil", "NotTLS"}

\* The peeker's hostname is looked up whatever its error.
DomainAlwaysSNI(e, name) == name

\* The hostname to look up: "*" for NotTLS, else the peeker's hostname.
DomainFor(e, name) == IF e = "nil" THEN name ELSE Wildcard

\* The handling of the peeker's result, and conn.SetReadDeadline(time.Time{}).
AfterPeek ==
  /\ pc = "after_peek"
  /\ \/ /\ AbortsOnPeekError(peekErr)
        /\ Return("read")
        /\ UNCHANGED <<domainName, deadline, netErr>>
     \/ /\ ~AbortsOnPeekError(peekErr)
        /\ domainName' = DomainFor(peekErr, sni)
        /\ \/ /\ deadline' = "none"
              /\ pc' = "route"
              /\ UNCHANGED <<retErr, connClosed, bClosed, netErr>>
           \/ /\ Return("deadline_clear")
              /\ netErr' = TRUE
              /\ UNCHANGED deadline
  /\ UNCHANGED <<endpoints, clientVars, backendVars, bOpen, peekVars, ep, getCalls,
                 dialCalls, dialAddr, lookups, relayVars>>

\* ep, err := s.endpointsDB.Get(domainName)
Route ==
  /\ pc = "route"
  /\ ep' = Get(endpoints, domainName)
  /\ getCalls' = getCalls + 1
  /\ \/ /\ ep'.found
        /\ pc' = "dial"
        /\ UNCHANGED <<retErr, connClosed, bClosed>>
     \/ /\ ~ep'.found
        /\ Return("routing")
  /\ UNCHANGED <<endpoints, clientVars, backendVars, bOpen, deadline, peekVars,
                 domainName, dialCalls, dialAddr, lookups, relayVars, netErr>>

\* A dial that is tried again after a failure (once).
DialRetries ==
  /\ pc = "dial"
  /\ dialCalls' = dialCalls + 1
  /\ dialAddr' = ep.Address
  /\ \/ /\ bOpen' = TRUE
        /\ pc' = "relay"
        /\ pcB' = "read" /\ pcC' = "read"
        /\ UNCHANGED <<retErr, connClosed, bClosed, netErr>>
     \/ /\ dialCalls = 0
        /\ netErr' = TRUE
        /\ UNCHANGED <<pc, retErr, connClosed, bClosed, bOpen, pcB, pcC>>
     \/ /\ dialCalls > 0
        /\ Return("dial")
        /\ netErr' = TRUE
        /\ UNCHANGED <<bOpen, pcB, pcC>>
  /\ UNCHANGED <<endpoints, clientVars, backendVars, deadline, peekVars, domainName,
                 ep, getCalls, lookups, bufB, bufC, peekedOff, liveRead>>

\* net.Dial("tcp", ep.Address); on success the two goroutines are started.
Dial ==
  /\ pc = "dial"
  /\ dialCalls' = dialCalls + 1
  /\ dialAddr' = ep.Address
  /\ \/ /\ bOpen' = TRUE
        /\ pc' = "relay"
        /\ pcB' = "read" /\ pcC' = "read"
        /\ UNCHANGED <<retErr, connClosed, bClosed, netErr>>
     \/ /\ Return("dial")
        /\ netErr' = TRUE
        /\ UNCHANGED <<bOpen, pcB, pcC>>
  /\ UNCHANGED <<endpoints, clientVars, backendVars, deadline, peekVars, domainName,
                 ep, getCalls, lookups, bufB, bufC, peekedOff, liveRead>>

\* ------------------------------------------------------------------- relay

\* How many bytes of an n-byte chunk a Write that the network fails may
\* have written: none, or all but the last.
PartialWrites(n) == {0, n - 1}

\* A client reader that is conn alone: the captured bytes are not replayed.
FromPeekedNever(off, pb) == FALSE

\* io.MultiReader(peekedBytes, conn) reads peekedBytes until it is drained.
FromPeeked(off, pb) == off < Len(pb)

\* conn.(*net.TCPConn): conn comes from the accept loop of a TCP listener
\* and is a *net.TCPConn, so the assertion holds.

\* io.Copy(conn, backendConn), the Read: it fails once backendConn is closed,
\* returns what has arrived, or end-of-stream, and blocks otherwise.
BRead ==
  /\ pcB = "read"
  /\ \/ /\ bClosed
        /\ pcB' = "close"
        /\ UNCHANGED <<b2p, bufB, netErr>>
     \/ /\ ~bClosed /\ b2p # <<>>
        /\ bufB' = b2p
        /\ b2p' = <<>>
        /\ pcB' = "write"
        /\ UNCHANGED netErr
     \/ /\ ~bClosed /\ b2p = <<>> /\ bFin
        /\ pcB' = "close"
        /\ UNCHANGED <<b2p, bufB, netErr>>
  /\ UNCHANGED <<endpoints, clientVars, bSent, bFin, bRecv, sockVars, peekVars,
                 routeVars, pcC, bufC, peekedOff, liveRead, pc, retErr>>

\* The network fails that Read.
BReadFail ==
  /\ pcB = "read" /\ ~bClosed
  /\ netErr' = TRUE
  /\ pcB' = "close"
  /\ UNCHANGED <<endpoints, clientVars, backendVars, sockVars, peekVars, routeVars,
                 bufB, pcC, bufC, peekedOff, liveRead, pc, retErr>>

\* io.Copy(conn, backendConn), the Write: it fails once conn is closed.
BWrite ==
  /\ pcB = "write"
  /\ \/ /\ connClosed
        /\ pcB' = "close"
        /\ UNCHANGED <<cRecv, netErr>>
     \/ /\ ~connClosed
        /\ cRecv' = cRecv \o bufB
        /\ pcB' = "read"
        /\ UNCHANGED netErr
  /\ bufB' = <<>>
  /\ UNCHANGED <<endpoints, stream, hello, cSent, c2p, cFin, backendVars, sockVars, peekVars,
                 routeVars, pcC, bufC, peekedOff, liveRead, pc, retErr>>

\* The network fails that Write after j of the bytes.
BWriteFail ==
  /\ pcB = "write" /\ ~connClosed
  /\ \E j \in PartialWrites(Len(bufB)) : cRecv' = cRecv \o SubSeq(bufB, 1, j)
  /\ netErr' = TRUE
  /\ pcB' = "close"
  /\ bufB' = <<>>
  /\ UNCHANGED <<endpoints, stream, hello, cSent, c2p, cFin, backendVars, sockVars, peekVars,
                 routeVars, pcC, bufC, peekedOff, liveRead, pc, retErr>>

\* The backend->client goroutine without its conn.Close().
BCloseNoClose ==
  /\ pcB = "close"
  /\ pcB' = "done"
  /\ UNCHANGED <<endpoints, clientVars, backendVars, sockVars, peekVars, routeVars,
                 bufB, pcC, bufC, peekedOff, liveRead, pc, retErr, netErr>>

\* conn.(*net.TCPConn).Close(); wg.Done()
BClose ==
  /\ pcB = "close"
  /\ connClosed' = TRUE
  /\ pcB' = "done"
  /\ UNCHANGED <<endpoints, clientVars, backendVars, bOpen, bClosed, deadline,
                 peekVars, routeVars, bufB, pcC, bufC, peekedOff, liveRead, pc,
                 retErr, netErr>>

\* io.Copy(backendConn, clientReader), the Read: the captured bytes first,
\* then conn.
CRead ==
  /\ pcC = "read"
  /\ \/ /\ FromPeeked(peekedOff, peekedBytes)
        /\ bufC' = SubSeq(peekedBytes, peekedOff + 1, Len(peekedBytes))
        /\ peekedOff' = Len(peekedBytes)
        /\ pcC' = "write"
        /\ UNCHANGED <<c2p, liveRead, netErr>>
     \/ /\ ~FromPeeked(peekedOff, peekedBytes)
        /\ \/ /\ connClosed
              /\ pcC' = "close"
              /\ UNCHANGED <<c2p, bufC, liveRead, netErr>>
           \/ /\ ~connClosed /\ c2p # <<>>
              /\ bufC' = c2p
              /\ liveRead' = liveRead \o c2p
              /\ c2p' = <<>>
              /\ pcC' = "write"
              /\ UNCHANGED netErr
           \/ /\ ~connClosed /\ c2p = <<>> /\ cFin
              /\ pcC' = "close"
              /\ UNCHANGED <<c2p, bufC, liveRead, netErr>>
        /\ UNCHANGED peekedOff
  /\ UNCHANGED <<endpoints, stream, hello, cSent, cFin, cRecv, backendVars, sockVars,
                 peekVars, routeVars, pcB, bufB, pc, retErr>>

\* The network fails a Read of conn.
CReadFail ==
  /\ pcC = "read" /\ ~connClosed
  /\ ~FromPeeked(peekedOff, peekedBytes)
  /\ netErr' = TRUE
  /\ pcC' = "close"
  /\ UNCHANGED <<endpoints, clientVars, backendVars, sockVars, peekVars, routeVars,
                 pcB, bufB, bufC, peekedOff, liveRead, pc, retErr>>

\* io.Copy(backendConn, clientReader), the Write.
CWrite ==
  /\ pcC = "write"
  /\ \/ /\ bClosed
        /\ pcC' = "close"
        /\ UNCHANGED <<bRecv, netErr>>
     \/ /\ ~bClosed
        /\ bRecv' = bRecv \o bufC
        /\ pcC' = "read"
        /\ UNCHANGED netErr
  /\ bufC' = <<>>
  /\ UNCHANGED <<endpoints, clientVars, bSent, b2p, bFin, sockVars, peekVars,
                 routeVars, pcB, bufB, peekedOff, liveRead, pc, retErr>>

\* The network fails that Write after j of the bytes.
CWriteFail ==
  /\ pcC = "write" /\ ~bClosed
  /\ \E j \in PartialWrites(Len(bufC)) : bRecv' = bRecv \o SubSeq(bufC, 1, j)
  /\ netErr' = TRUE
  /\ pcC' = "close"
  /\ bufC' = <<>>
  /\ UNCHANGED <<endpoints, clientVars, bSent, b2p, bFin, sockVars, peekVars,
                 routeVars, pcB, bufB, peekedOff, liveRead, pc, retErr>>

\* backendConn.Close(); wg.Done()
CClose ==
  /\ pcC = "close"
  /\ bClosed' = TRUE
  /\ pcC' = "done"
  /\ UNCHANGED <<endpoints, clientVars, backendVars, connClosed, bOpen, deadline,
                 peekVars, routeVars, pcB, bufB, bufC, peekedOff, liveRead, pc,
                 retErr, netErr>>

\* wg.Wait() returns once both goroutines are done; return nil.
Wait ==
  /\ pc = "relay"
  /\ pcB = "done" /\ pcC = "done"
  /\ Return("nil")
  /\ UNCHANGED <<endpoints, clientVars, backendVars, bOpen, deadline, peekVars,
                 routeVars, relayVars, netErr>>

\* ----------------------------------------------------------- specification

Next ==
  \/ ClientSend \/ ClientClose \/ BackendSend \/ BackendClose \/ DeadlineExpires
  \/ PeekReadFail \/ BReadFail \/ BWriteFail \/ CReadFail \/ CWriteFail
  \/ Start \/ PeekRead \/ PeekParse \/ AfterPeek \/ Route \/ Dial
  \/ BRead \/ BWrite \/ BClose \/ CRead \/ CWrite \/ CClose \/ Wait

Spec == Init /\ [][Next]_vars

\* The Go scheduler runs every goroutine that can take a step, and the
\* clock reaches a deadline that stays armed.  The client, the backend and
\* the network's failures are under no obligation.
Fairness ==
  /\ WF_vars(Start) /\ WF_vars(PeekRead) /\ WF_vars(PeekParse)
  /\ WF_vars(AfterPeek) /\ WF_vars(Route) /\ WF_vars(Dial) /\ WF_vars(Wait)
  /\ WF_vars(BRead) /\ WF_vars(BWrite) /\ WF_vars(BClose)
  /\ WF_vars(CRead) /\ WF_vars(CWrite) /\ WF_vars(CClose)

FairSpec == Spec /\ Fairness /\ WF_vars(DeadlineExpires)

\* The peeker over a source whose Reads never time out: the scheduler's
\* fairness alone.
PeekFairSpec == Spec /\ Fairness

\* The handler at the parse of a buffer buf that one Read delivered whole,
\* sent by a client that composed it of h.
AtParse(buf, h) ==
  /\ endpoints = <<>>
  /\ stream = buf /\ hello = h
  /\ cSent = Len(buf) /\ c2p = <<>> /\ cFin = FALSE /\ cRecv = <<>>
  /\ bSent = 0 /\ b2p = <<>> /\ bFin = FALSE /\ bRecv = <<>>
  /\ connClosed = FALSE /\ bOpen = FALSE /\ bClosed = FALSE
  /\ deadline = "armed"
  /\ pc = "peek_parse"
  /\ peekedBytes = buf /\ peekedOff = 0
  /\ readErr = "nil" /\ peekErr = "none" /\ sni = <<>> /\ tls = NoRecord
  /\ domainName = <<>> /\ ep = NoEndpoint /\ lookups = <<>>
  /\ retErr = "none"
  /\ pcB = "idle" /\ bufB = <<>> /\ pcC = "idle" /\ bufC = <<>>
  /\ delivered = buf /\ liveRead = <<>>
  /\ getCalls = 0 /\ dialCalls = 0 /\ dialAddr = ""
  /\ netErr = FALSE

\* parseTLSHandshake and tls.SNI() applied to the record of every
\* ClientHello of Hellos.
HelloInit == \E h \in Hellos : AtParse(Record(ClientHello(h)), h)

HelloSpec == HelloInit /\ [][PeekParse]_vars

\* parseTLSHandshake and tls.SNI() applied to every buffer of ParseInputs.
ParseInit == \E buf \in ParseInputs : AtParse(buf, NoHello)

ParseSpec == ParseInit /\ [][PeekParse]_vars

\* One pass of the loop of EndpointDB.Get run by caller c: the entry at the
\* caller's position is matched and returned, or the position moves on; past
\* the last entry the error is returned.
GetStep(c) ==
  /\ ~lookups[c].done
  /\ LET l == lookups[c]
     IN  lookups' = [lookups EXCEPT ![c] =
           IF l.i > Len(endpoints)
           THEN [l EXCEPT !.ep = NoEndpoint, !.done = TRUE]
           ELSE IF MatchString(endpoints[l.i].regex, l.endpoint)
                THEN [l EXCEPT !.ep = [found |-> TRUE,
                                       Address |-> endpoints[l.i].Address,
                                       index |-> l.i],
                               !.done = TRUE]
                ELSE [l EXCEPT !.i = l.i + 1]]
  /\ UNCHANGED <<endpoints, clientVars, backendVars, sockVars, peekVars,
                 domainName, ep, getCalls, dialCalls, dialAddr, relayVars, pc,
                 retErr, netErr>>

GetNext == \E c \in 1..MaxCallers : GetStep(c)

\* A table after NewEndpointsDB, and MaxCallers goroutines entering Get.
GetInit ==
  /\ endpoints \in LookupTables
  /\ lookups \in [1..MaxCallers ->
                   { [endpoint |-> h, i |-> 1, ep |-> NoEndpoint, done |-> FALSE] :
                       h \in LookupNames }]
  /\ stream = <<>> /\ hello = NoHello
  /\ cSent = 0 /\ c2p = <<>> /\ cFin = FALSE /\ cRecv = <<>>
  /\ bSent = 0 /\ b2p = <<>> /\ bFin = FALSE /\ bRecv = <<>>
  /\ connClosed = FALSE /\ bOpen = FALSE /\ bClosed = FALSE
  /\ deadline = "none"
  /\ pc = "start"
  /\ peekedBytes = <<>> /\ peekedOff = 0
  /\ readErr = "nil" /\ peekErr = "none" /\ sni = <<>> /\ tls = NoRecord
  /\ domainName = <<>> /\ ep = NoEndpoint
  /\ retErr = "none"
  /\ pcB = "idle" /\ bufB = <<>> /\ pcC = "idle" /\ bufC = <<>>
  /\ delivered = <<>> /\ liveRead = <<>>
  /\ getCalls = 0 /\ dialCalls = 0 /\ dialAddr = ""
  /\ netErr = FALSE

GetSpec == GetInit /\ [][GetNext]_vars

\* ------------------------------------------------------------------ claims

\* C1: the capture buffer peekClientHello returns is exactly the bytes the
\* source delivered to its Reads, in order, whichever way peeking ended
\* (hostname, NotTLS, read error), bytes delivered with an error included.
BytePreservation == peekErr # "none" => peekedBytes = delivered

\* A read failure that delivered bytes, after an earlier chunk.
BytePreservationWitness ==
  /\ peekErr = "read" /\ readErr = "reset"
  /\ delivered = <<22, 3, 3, 0>>
  /\ peekedBytes = <<22, 3, 3, 0>>

\* C2: what has been written to the backend is a prefix of the captured
\* bytes followed by the bytes read from conn afterwards; while the
\* client->backend copy runs, every byte it has taken is written or held,
\* once; no byte of conn is taken before the captured bytes are handed out.
RelayReconstruction ==
  /\ IsPrefix(bRecv, peekedBytes \o liveRead)
  /\ pcC \in {"read", "write"} =>
       bRecv \o bufC = SubSeq(peekedBytes, 1, peekedOff) \o liveRead
  /\ liveRead # <<>> => peekedOff = Len(peekedBytes)
  /\ ~bOpen => bRecv = <<>>

\* The TLS case: the backend holds the ClientHello and the byte after it.
RelayReconstructionWitness ==
  /\ peekErr = "nil" /\ sni = <<97>>
  /\ liveRead = <<7>>
  /\ bRecv = Hello(<<97>>) \o <<7>>

\* C3: once HandleConnection has returned, conn is closed, and backendConn
\* is closed if it was opened.
SocketsClosed == pc = "returned" => connClosed /\ (bOpen => bClosed)

\* The return after the relay, the backend having ended first.
SocketsClosedWitness ==
  /\ pc = "returned" /\ retErr = "nil"
  /\ bOpen /\ bClosed /\ connClosed
  /\ bFin /\ ~cFin

\* C4: when the relay has ended with no network failure, the client has
\* received exactly what the backend sent and the backend exactly what the
\* client sent.
RelayComplete ==
  (pc = "returned" /\ retErr = "nil" /\ ~netErr) =>
     /\ cRecv = SubSeq(BackendData, 1, bSent)
     /\ bRecv = SubSeq(stream, 1, cSent)

\* C5: the goroutine that is done has closed its destination, and once one
\* direction's copy has ended HandleConnection returns.
RelayTerminates ==
  /\ [](pcB = "done" => connClosed)
  /\ [](pcC = "done" => bClosed)
  /\ (pcB \in {"close", "done"} \/ pcC \in {"close", "done"}) ~> (pc = "returned")

\* One direction is done while the other still waits in its Read.
RelayTerminatesWitness ==
  /\ pc = "relay"
  /\ pcC = "done" /\ pcB = "read"
  /\ ~netErr

\* C6: no client behaviour makes the handling of its connection panic.
NoPanic == pc # "panicked"

\* C7: once the source has reported end-of-stream with a proper prefix of
\* a record captured, peekClientHello returns.
PeekReturnsAfterEOF ==
  (pc = "peek_parse" /\ readErr = "EOF" /\ Len(peekedBytes) >= 3)
     ~> (pc \notin {"peek_read", "peek_parse"})

\* C8: peeking runs under a read deadline, and once the deadline has passed
\* with nothing received HandleConnection returns an error, conn closed.
PeekDeadline ==
  /\ [](pc \in {"peek_read", "peek_parse"} => deadline \in {"armed", "expired"})
  /\ (pc = "peek_read" /\ delivered = <<>> /\ cSent = 0 /\ deadline = "expired")
        ~> (pc = "returned" /\ retErr = "read" /\ connClosed)
  /\ <>(cSent > 0 \/ cFin \/ netErr \/ (pc = "returned" /\ connClosed))

\* The timeout of an idle client, returned as an error.
PeekDeadlineWitness ==
  /\ pc = "returned" /\ retErr = "read" /\ readErr = "timeout"
  /\ cSent = 0 /\ ~cFin /\ ~netErr
  /\ connClosed

\* C9: after a read failure of the peeker, HandleConnection only returns
\* that error: no Get, no Dial, no byte to a backend.
ReadFailureAborts ==
  peekErr = "read" =>
     /\ pc \in {"after_peek", "returned"}
     /\ pc = "returned" => retErr = "read"
     /\ getCalls = 0 /\ dialCalls = 0 /\ ~bOpen /\ bRecv = <<>>

\* The return after a failure that came with captured bytes.
ReadFailureAbortsWitness ==
  /\ peekErr = "read" /\ pc = "returned" /\ retErr = "read"
  /\ peekedBytes # <<>>

\* The entries of the table that match "*".
WildcardEntries == {i \in 1..Len(endpoints) : MatchString(endpoints[i].regex, Wildcard)}

\* C10: a stream classified NotTLS is not an error: "*" is looked up; with a
\* matching entry its address is dialed and the captured bytes go first;
\* with none the connection is closed, nothing dialed, nothing relayed.
NonTLSRouting ==
  peekErr = "NotTLS" =>
     /\ retErr # "read"
     /\ getCalls > 0 => domainName = Wildcard
     /\ (getCalls > 0 /\ WildcardEntries # {}) =>
          /\ pc \in {"dial", "relay", "returned"}
          /\ pc \in {"relay", "returned"} => dialCalls = 1
     /\ dialCalls > 0 =>
          \E i \in WildcardEntries :
             /\ dialAddr = endpoints[i].Address
             /\ \A j \in WildcardEntries : i <= j
     /\ (getCalls > 0 /\ WildcardEntries = {}) =>
          /\ pc = "returned" /\ retErr = "routing" /\ connClosed
          /\ dialCalls = 0 /\ ~bOpen /\ bRecv = <<>>
     /\ IsPrefix(bRecv, peekedBytes \o liveRead)

\* Plaintext routed to the catch-all entry, the captured bytes replayed.
NonTLSRoutingWitness ==
  /\ peekErr = "NotTLS" /\ peekedBytes = <<72, 69>>
  /\ dialAddr = "10.0.0.2:443"
  /\ bRecv = <<72, 69, 7>>

\* The phase of HandleConnection at a position: 1 Peeking (from the arming
\* of the deadline to its clearing), 2 Routing, 3 Dialing, 4 Relaying,
\* 5 Closed (returned, or unwound by a panic).
Phase(p) ==
  CASE p \in {"start", "peek_read", "peek_parse", "after_peek"} -> 1
    [] p = "route" -> 2
    [] p = "dial" -> 3
    [] p = "relay" -> 4
    [] p \in {"returned", "panicked"} -> 5

\* C11: the phases of one HandleConnection occur only in the order Peeking,
\* Routing, Dialing, Relaying, Closed: every step stays in its phase, enters
\* the next one, or goes to Closed, so no phase is entered twice; Get is
\* called at most once, and only when Routing is left; net.Dial is called at
\* most once, and only when Dialing is left; a relay goroutine has started
\* only if the one dial succeeded and Relaying was entered.
PhaseOrder ==
  /\ [](/\ getCalls <= 1 /\ dialCalls <= 1
        /\ (getCalls = 1 <=>
              Phase(pc) \in {3, 4} \/ retErr \in {"routing", "dial", "nil"})
        /\ (dialCalls = 1 <=> Phase(pc) = 4 \/ retErr \in {"dial", "nil"})
        /\ (pcB # "idle" \/ pcC # "idle" =>
              bOpen /\ dialCalls = 1 /\ Phase(pc) >= 4))
  /\ [][Phase(pc') \in {Phase(pc), Phase(pc) + 1, 5}]_vars

\* A connection that went through every phase and returned nil.
PhaseOrderWitness ==
  /\ pc = "returned" /\ retErr = "nil"
  /\ getCalls = 1 /\ dialCalls = 1 /\ bOpen
  /\ pcB = "done" /\ pcC = "done"

\* C15: for every ClientHello composed with exact lengths and one name
\* entry, of type hostname, in its server_name extension, whatever its
\* session id, cipher suites, compression methods and the extensions before
\* and after, the record is accepted with that ClientHello as its body and
\* SNI() returns exactly the entry's name.
SNIRoundTrip ==
  (/\ pc = "after_peek"
   /\ hello.slack = 0
   /\ Len(hello.names) = 1 /\ hello.names[1].t = 0)
  => /\ peekErr = "nil"
     /\ tls.Body = ClientHello(hello)
     /\ sni = hello.names[1].name

\* The hostname "b\000" between a session id, cipher suites, a compression
\* method and an extension on either side.
SNIRoundTripWitness ==
  /\ pc = "after_peek" /\ peekErr = "nil"
  /\ hello = [sid |-> <<5>>, cs |-> <<19, 1>>, comp |-> <<0>>,
              before |-> Extension(10, <<9>>),
              names |-> <<[t |-> 0, name |-> <<98, 0>>]>>,
              after |-> Extension(1, <<>>), slack |-> 0]
  /\ sni = <<98, 0>>

\* C17: when a ClientHello declares an extensions length larger than the
\* bytes that remain in the body, SNI() scans no extension and returns "",
\* also when a complete server_name extension lies in the bytes that remain.
ExtensionsOverrun ==
  (pc = "after_peek" /\ hello.slack > 0)
  => /\ peekErr = "nil"
     /\ tls.Body = ClientHello(hello)
     /\ sni = <<>>

\* A complete server_name extension for "a" in a block declared 4 bytes
\* longer than it is.
ExtensionsOverrunWitness ==
  /\ pc = "after_peek" /\ peekErr = "nil"
  /\ hello.slack = 4
  /\ hello.names = <<[t |-> 0, name |-> <<97>>]>>
  /\ hello.before = <<>> /\ hello.after = <<>>
  /\ sni = <<>>

\* C17 as stated: with a declared extensions length larger than the bytes
\* that remain, SNI() still returns the hostname of a complete server_name
\* extension among them.
ExtensionsClamp ==
  (/\ pc = "after_peek"
   /\ hello.slack > 0
   /\ Len(hello.names) = 1 /\ hello.names[1].t = 0)
  => sni = hello.names[1].name

\* The index of the first hostname entry (nameType 0) of a name list, 0 when
\* it has none.
FirstHost(names) ==
  IF \E i \in 1..Len(names) : names[i].t = 0
  THEN CHOOSE i \in 1..Len(names) :
         /\ names[i].t = 0
         /\ \A j \in 1..(i - 1) : names[j].t # 0
  ELSE 0

\* C20: for a ClientHello composed with exact lengths whose server_name list
\* holds a hostname entry, SNI() returns the name of the first such entry,
\* whatever entries of other types come before it.
FirstHostWins ==
  (/\ pc = "after_peek"
   /\ hello.slack = 0
   /\ FirstHost(hello.names) > 0)
  => sni = hello.names[FirstHost(hello.names)].name

\* ------------------------------------------------- claims about the parser

\* What the parse of peekedBytes answered: "nil", "NotTLS", "ReadMore" (the
\* loop goes on to read), "panic"; "none" before the parse.
Verdict ==
  CASE pc = "peek_read" -> "ReadMore"
    [] pc = "panicked" -> "panic"
    [] pc = "after_peek" -> peekErr
    [] OTHER -> "none"

\* 0x0301, 0x0302, 0x0303, 0x0304
TLSVersions == {769, 770, 771, 772}

\* buf is a proper prefix of a handshake record of a recognised version:
\* the bytes it holds are those of such a header, and it holds fewer than
\* 5 + size bytes when it holds the size.
ProperPrefix(buf) ==
  /\ Len(buf) >= 1 /\ buf[1] = 22
  /\ (Len(buf) = 2 => \E v \in TLSVersions : v \div 256 = buf[2])
  /\ (Len(buf) >= 3 => buf[2] * 256 + buf[3] \in TLSVersions)
  /\ (Len(buf) >= 5 => Len(buf) < 5 + buf[4] * 256 + buf[5])

\* C12: for every buffer that is a proper prefix of a valid handshake
\* record, prefixes of 1 to 4 bytes included, the parse answers ReadMore.
ShortIsReadMore ==
  (Verdict # "none" /\ ProperPrefix(peekedBytes)) => Verdict = "ReadMore"

\* C13: for every buffer whose first byte is not 22, or whose bytes 1-2 are
\* not a recognised version, the parse answers NotTLS; and every record
\* accepted has type 22, the recognised version of bytes 1-2, and as its
\* body the bytes after the header, as many as bytes 3-4 declare.
NotTLSVerdict ==
  Verdict # "none" =>
    LET buf == peekedBytes
    IN  /\ (Len(buf) >= 1 /\ buf[1] # 22 => Verdict = "NotTLS")
        /\ (Len(buf) >= 3 /\ buf[2] * 256 + buf[3] \notin TLSVersions
              => Verdict = "NotTLS")
        /\ (Verdict = "nil" =>
              /\ Len(buf) >= 5 /\ buf[1] = 22
              /\ tls.Type = 22
              /\ tls.Version \in TLSVersions
              /\ tls.Version = buf[2] * 256 + buf[3]
              /\ Len(tls.Body) = buf[4] * 256 + buf[5]
              /\ tls.Body = SubSeq(buf, 6, 5 + Len(tls.Body)))

\* A handshake header of SSL 3.0 with its one-byte body: NotTLS.
NotTLSVerdictWitness ==
  /\ peekedBytes = <<22, 3, 0, 0, 1, 7>>
  /\ Verdict = "NotTLS"
  /\ tls = NoRecord

\* C19: for every buffer of at least 5 bytes with a valid header, whatever
\* size in 0..65535 it declares, the parse answers ReadMore when
\* size + 5 > len(buf), as integers, and otherwise accepts the record with
\* the body buf[5 : size+5].
LengthCheck ==
  LET buf  == peekedBytes
      size == buf[4] * 256 + buf[5]
  IN  (/\ Verdict # "none"
       /\ Len(buf) >= 5 /\ buf[1] = 22
       /\ buf[2] * 256 + buf[3] \in TLSVersions)
      => IF size + 5 > Len(buf)
         THEN Verdict = "ReadMore"
         ELSE Verdict = "nil" /\ tls.Body = SubSeq(buf, 6, size + 5)

\* Whether a name entry from n on, up to the first hostname entry, declares
\* a name that ends past len(Body); entries follow one another by their
\* declared sizes and end at stop.
RECURSIVE NamesOverrun(_, _, _)
NamesOverrun(Body, n, stop) ==
  IF n + 3 > stop \/ n + 3 > Len(Body) THEN FALSE
  ELSE LET nameEnd == n + 3 + Uint16(Body, n + 1)
       IN  \/ nameEnd > Len(Body)
           \/ /\ At(Body, n) # 0
              /\ NamesOverrun(Body, nameEnd, stop)

\* Whether an extension from pos on, up to the first server_name extension,
\* declares a size or a list length that ends past len(Body); extensions
\* follow one another by their declared sizes and end at stop.
RECURSIVE ExtsOverrun(_, _, _)
ExtsOverrun(Body, pos, stop) ==
  IF pos + 4 > stop \/ pos + 4 > Len(Body) THEN FALSE
  ELSE LET extEnd == pos + 4 + Uint16(Body, pos + 2)
       IN  \/ extEnd > Len(Body)
           \/ IF Uint16(Body, pos) = 0
              THEN /\ pos + 6 <= Len(Body)
                   /\ LET listEnd == pos + 6 + Uint16(Body, pos + 4)
                      IN  \/ listEnd > Len(Body)
                          \/ NamesOverrun(Body, pos + 6, listEnd)
              ELSE ExtsOverrun(Body, extEnd, stop)

\* Whether a length declared in a ClientHello body runs past the end of
\* the body: of the session id, the cipher suites, the compression
\* methods, the extensions block, or inside the block.  A field is looked
\* at only if the fields before it end inside the body and it is present.
Overrun(Body) ==
  LET L  == Len(Body)
      p1 == 39 + At(Body, 38)
      p2 == p1 + 2 + Uint16(Body, p1)
      p3 == p2 + 1 + At(Body, p2)
      p4 == p3 + 2 + Uint16(Body, p3)
  IN  /\ L >= 39
      /\ \/ p1 > L
         \/ /\ p1 + 2 <= L
            /\ \/ p2 > L
               \/ /\ p2 + 1 <= L
                  /\ \/ p3 > L
                     \/ /\ p3 + 2 <= L
                        /\ (p4 > L \/ ExtsOverrun(Body, p3 + 2, p4))

\* No read of SNI() at or beyond len(body).
SNIReadsInBounds ==
  (pc = "after_peek" /\ peekErr = "nil")
  => SNIScan(tls.Body).top <= Len(tls.Body)

\* C14: for every record body, SNI() ends, reads no index of the body at or
\* beyond its length, and returns "" whenever a declared length runs past
\* the end of the body.
SNISafe ==
  /\ SNIReadsInBounds
  /\ (pc = "after_peek" /\ peekErr = "nil")
     => /\ sni = SNIScan(tls.Body).name
        /\ (Overrun(tls.Body) => sni = <<>>)

\* ------------------------------------------------- claims about the router

\* The indices of the entries of the table whose regex matches name.
Matching(name) ==
  {i \in 1..Len(endpoints) : MatchString(endpoints[i].regex, name)}

\* C16: every Get that has returned, whatever other Gets ran between its
\* steps, returned the matching entry of the lowest index, or the error
\* exactly when no entry matches; that is what one Get run alone returns;
\* and no step changes the table.
RouterFirstMatch ==
  /\ [](\A c \in 1..Len(lookups) :
          lookups[c].done =>
            LET l == lookups[c]
                M == Matching(l.endpoint)
            IN  /\ l.ep.found <=> M # {}
                /\ l.ep.found =>
                     /\ l.ep.index \in M
                     /\ \A i \in M : l.ep.index <= i
                     /\ l.ep.Address = endpoints[l.ep.index].Address
                /\ l.ep = Get(endpoints, l.endpoint))
  /\ [][endpoints' = endpoints]_vars

\* Over the table ["a", ".*"], a Get of "a" and a Get of "b" that both
\* returned: the first entry, and the wildcard entry.
RouterFirstMatchWitness ==
  /\ Len(lookups) = 2 /\ Len(endpoints) = 2
  /\ endpoints[1].regex = <<Lit(97)>> /\ endpoints[2].regex = <<AnyStar>>
  /\ lookups[1].done /\ lookups[2].done
  /\ lookups[1].endpoint = <<97>> /\ lookups[1].ep.index = 1
  /\ lookups[2].endpoint = <<98>> /\ lookups[2].ep.index = 2

\* --------------------------------------------------- claims about chunking

\* What peekClientHello returns when one Read delivers the whole stream.
SingleRead == parseTLSHandshake(stream, BytesCap(stream))

\* C18: for every stream that begins with a complete valid handshake
\* record, whenever peekClientHello returns the verdict of a parse, it is
\* the verdict and the hostname of a single Read of the whole stream,
\* however the client's writes split the stream into chunks.
ChunkingIndependent ==
  (SingleRead.err = "nil" /\ peekErr \in {"nil", "NotTLS"})
  => /\ peekErr = "nil"
     /\ sni = SNI(SingleRead.Body)

====
